---- MODULE Spec2Model ----
(***************************************************************************)
(* The transactional data-access layer of src/index.py: the tables of the  *)
(* PostgreSQL schema declared by the SQLAlchemy models, the get_session    *)
(* transaction boundary, and the CRUD services built on it.                *)
(*                                                                         *)
(* A client (one running instance of the Tkinter application) makes one    *)
(* service call at a time.  A call is a sequence of steps, one per group   *)
(* of SQL statements the session sends:                                    *)
(*   Call*    SessionLocal() and the first SELECT of the service           *)
(*   Body*    the rest of the `with` body, up to its return                *)
(*   Commit   s.commit(): flush of the pending unit of work, then COMMIT   *)
(*   Rollback s.rollback() in the except branch                            *)
(*   Close    s.close() in the finally branch                              *)
(* Rows INSERTed by a flush stay in the session's tx until COMMIT; other   *)
(* sessions do not see them (READ COMMITTED) but wait on their unique keys *)
(* and on the rows they reference.                                         *)
(***************************************************************************)
EXTENDS Integers, Sequences, FiniteSets, TLC

VARIABLES
    db,     \* committed rows: one set of rows per table
    seq,    \* next value of each SERIAL primary-key sequence
    ses,    \* per client: the session and the call in progress
    calls,  \* number of service calls started so far
    cfg     \* the clients that run and the number of calls they make

vars == <<db, seq, ses, calls, cfg>>

----------------------------------------------------------------------------
(* Bounds and input domains *)

MaxCalls == 4
MaxConcCalls == 2
MaxFairCalls == 2
MaxId == 2
MaxReadCalls == 3

Procs == {1, 2}
Ids == 1..MaxId
Nomes == {"Ana", "Bia"}
Emails == {"ana@x.com", "bia@x.com"}
Senhas == {"pw123"}
NovasSenhas == {{}, {""}, {"pw456"}}     \* None is {}, a str s is {s}
Salts == {"saltA"}
Matriculas == {"S1", "S2"}
Tipos == {"aluno", "professor", "admin"}
TiposArg == Tipos \cup {"visitante"}
NomesSala == {"A101", "Lab1"}
Capacidades == {-1, 10, 30}
Dias == {"2024-01-01", "2024-03-01"}

Rounds == 12

----------------------------------------------------------------------------
(* Credentials *)

\* bcrypt.hashpw(senha, bcrypt.gensalt(rounds=12)): the string embeds the
\* cost and the salt, and a digest that depends on salt and password.
hash_senha_bcrypt(senha_plana, salt) ==
    [rounds |-> Rounds, salt |-> salt, digest |-> <<salt, senha_plana>>]

\* bcrypt.hashpw(senha, setting): cost and salt are read from `setting`,
\* which is a salt from gensalt or a whole hash string.
hashpw(senha_plana, setting) ==
    [rounds |-> setting.rounds, salt |-> setting.salt,
     digest |-> <<setting.salt, senha_plana>>]

\* What hashpw can read a cost (4 to 31) and a salt from.
ValidSetting(h) == h.rounds \in 4..31 /\ h.salt \in Salts

\* Strings that are no output of hash_senha_bcrypt: one without a setting
\* (the empty string, any other text), and a hash cut short after its salt.
NoHash == [rounds |-> 0, salt |-> "", digest |-> <<>>]
CutHash == [rounds |-> Rounds, salt |-> "saltA", digest |-> <<"saltA">>]

\* Variant: checkpw wrapped in try/except ValueError, returning False.
verificar_senha_Safe(senha_plana, senha_hash) ==
    IF ~ValidSetting(senha_hash) THEN [err |-> "none", ret |-> {FALSE}]
    ELSE [err |-> "none", ret |-> {hashpw(senha_plana, senha_hash) = senha_hash}]

\* bcrypt.checkpw(senha, senha_hash): hashpw raises ValueError("Invalid
\* salt") on a string it cannot read a setting from; otherwise the result
\* of hashing with the stored setting is compared with the stored string.
verificar_senha(senha_plana, senha_hash) ==
    IF ~ValidSetting(senha_hash) THEN [err |-> "ValueError", ret |-> {}]
    ELSE [err |-> "none", ret |-> {hashpw(senha_plana, senha_hash) = senha_hash}]

----------------------------------------------------------------------------
(* Tables *)

Tables == {"usuario", "aluno", "professor", "sala", "registro"}

EmptyDb == [usuario |-> {}, aluno |-> {}, professor |-> {}, sala |-> {}, registro |-> {}]

Usuario(id, nome, email, senha, tipo) ==
    [id_usuario |-> id, nome |-> nome, email |-> email, senha |-> senha, tipo |-> tipo]

Aluno(id, matricula) == [id_aluno |-> id, matricula |-> matricula]

Professor(id) == [id_professor |-> id]

Sala(id, nome, capacidade) == [id_sala |-> id, nome_sala |-> nome, capacidade |-> capacidade]

Registro(id, id_usuario, id_sala, dia) ==
    [id_registro |-> id, id_usuario |-> id_usuario, id_sala |-> id_sala, data_registro |-> dia]

\* Variant: the table without CheckConstraint ck_usuario_tipo.
ck_usuario_tipo_Any(tipo) == TRUE

\* CheckConstraint ck_usuario_tipo
ck_usuario_tipo(tipo) == tipo \in Tipos

\* Variant: the table without CheckConstraint ck_sala_capacidade.
ck_sala_capacidade_Any(capacidade) == TRUE

\* CheckConstraint ck_sala_capacidade
ck_sala_capacidade(capacidade) == capacidade >= 0

\* UniqueConstraint uq_registro: the columns it spans
uq_registro(r) == <<r.id_usuario, r.id_sala, r.data_registro>>

----------------------------------------------------------------------------
(* Sessions *)

NoWork == [nome |-> {}, email |-> {}, tipo |-> {}, senha |-> {},
           aluno |-> {}, professor |-> FALSE, delete |-> FALSE, registros |-> {}]

Idle == [pc |-> "idle", op |-> "none", args |-> <<>>, u |-> {}, uow |-> NoWork,
         tx |-> EmptyDb, ret |-> {}, err |-> "none", trace |-> <<>>,
         id |-> 0, pre |-> EmptyDb, prev |-> {}, rivals |-> {}]

\* What a finished call leaves for the caller to compare the next one with.
Summary(s) == [op |-> s.op, args |-> s.args, ret |-> s.ret, err |-> s.err, pre |-> s.pre]

\* The unique key a get-or-create service looks up and then inserts.
Key(op, a) ==
    CASE op \in {"aluno", "professor", "admin"} -> <<"usuario", a.email>>
      [] op = "sala" -> <<"sala", a.nome>>
      [] op = "registrar" -> <<"registro", a.id_usuario, a.id_sala, a.dia>>
      [] OTHER -> <<"none">>

\* The calls of other clients that looked the same key up, found nothing,
\* and have not committed yet when this call looks it up.
Rivals(p, op, args) ==
    {ses[q].id : q \in {r \in Procs \ {p} :
                          /\ ses[r].pc \in {"body", "commit"}
                          /\ ses[r].u = {}
                          /\ Key(ses[r].op, ses[r].args) = Key(op, args)
                          /\ Key(op, args) # <<"none">>}}

\* get_session, up to the yield: a new session; the service's first SELECT
\* reads the committed rows.  id, pre, prev and rivals record the call for
\* the properties below; no step reads them.
get_session(p, op, args, found) ==
    [pc |-> "body", op |-> op, args |-> args, u |-> found, uow |-> NoWork,
     tx |-> EmptyDb, ret |-> {}, err |-> "none", trace |-> <<"open">>,
     id |-> calls + 1, pre |-> db,
     prev |-> IF ses[p].pc = "done" THEN {Summary(ses[p])} ELSE {},
     rivals |-> IF found = {} THEN Rivals(p, op, args) ELSE {}]

\* Rows other sessions have INSERTed and not yet committed.
OtherTx(p, tab) == UNION {ses[q].tx[tab] : q \in Procs \ {p}}

The(S) == CHOOSE x \in S : TRUE

\* Variant: every service returning True as its flag.
Returned_AlwaysCreated(s, val, created) ==
    [s EXCEPT !.pc = "commit", !.ret = {[val |-> val, created |-> TRUE]}]

\* The body returned: its value is kept until the commit decides the call.
Returned(s, val, created) ==
    [s EXCEPT !.pc = "commit", !.ret = {[val |-> val, created |-> created]}]

\* Variant: get_session without its except branch.
Raised_NoRollback(s, err) == [s EXCEPT !.pc = "close", !.err = err, !.ret = {}]

\* The body raised: the except branch of get_session is next.
Raised(s, err) == [s EXCEPT !.pc = "rollback", !.err = err, !.ret = {}]

CanCall(p) ==
    /\ p \in cfg.apps
    /\ ses[p].pc = "idle"
    /\ calls < cfg.budget

Start(p, op, args, found) ==
    /\ ses' = [ses EXCEPT ![p] = get_session(p, op, args, found)]
    /\ calls' = calls + 1
    /\ UNCHANGED <<db, seq, cfg>>

----------------------------------------------------------------------------
(* Argument domains and the first SELECT of each service *)

ArgsUsuario == [nome : Nomes, email : Emails, senha_plana : Senhas]
ArgsAluno == [nome : Nomes, email : Emails, senha_plana : Senhas, matricula : Matriculas]
ArgsAtualizar ==
    [id_usuario : Ids, nome : Nomes, email : Emails, tipo : TiposArg, nova_senha : NovasSenhas]
ArgsDeletar == [id_usuario : Ids]
ArgsSala == [nome : NomesSala, capacidade : Capacidades]
ArgsRegistrar == [id_usuario : Ids, id_sala : Ids, dia : Dias]

\* select(Usuario).where(Usuario.email == email)
ByEmail(email) == {r \in db.usuario : r.email = email}

\* Variant: the primary key ignored, any stored Usuario is returned.
GetUsuario_Any(id) == db.usuario

\* s.get(Usuario, id_usuario)
GetUsuario(id) == {r \in db.usuario : r.id_usuario = id}

\* Variant: the name compared with != in the WHERE clause.
ByNomeSala_Inverted(nome) == {r \in db.sala : r.nome_sala # nome}

\* select(Sala).where(Sala.nome_sala == nome)
ByNomeSala(nome) == {r \in db.sala : r.nome_sala = nome}

\* Variant: the day compared with != in the WHERE clause.
ByTriple_WrongDay(id_usuario, id_sala, dia) ==
    {r \in db.registro :
        r.id_usuario = id_usuario /\ r.id_sala = id_sala /\ r.data_registro # dia}

\* select(Registro).where(id_usuario, id_sala, data_registro all match)
ByTriple(id_usuario, id_sala, dia) ==
    {r \in db.registro : uq_registro(r) = <<id_usuario, id_sala, dia>>}

Lookup(op, a) ==
    CASE op \in {"aluno", "professor", "admin"} -> ByEmail(a.email)
      [] op \in {"atualizar", "deletar"} -> GetUsuario(a.id_usuario)
      [] op = "sala" -> ByNomeSala(a.nome)
      [] op = "registrar" -> ByTriple(a.id_usuario, a.id_sala, a.dia)
      [] OTHER -> {}

----------------------------------------------------------------------------
(* get_or_create_usuario_aluno *)

CallAluno(p) ==
    /\ CanCall(p)
    /\ \E a \in ArgsAluno : Start(p, "aluno", a, Lookup("aluno", a))

\* The flush of a new Usuario waits while another session holds an
\* uncommitted row with the same email (or, for its Aluno, matricula).
InsertUsuarioWaits(p, email, matriculas) ==
    IF \E r \in OtherTx(p, "usuario") : r.email = email THEN TRUE
    ELSE IF \E r \in db.usuario : r.email = email THEN FALSE
    ELSE \E r \in OtherTx(p, "aluno") : r.matricula \in matriculas

\* Variant: usuario.email without unique=True.
InsertUsuarioErr_NoEmail(email, matriculas) ==
    IF \E r \in db.aluno : r.matricula \in matriculas THEN "unique"
    ELSE "none"

\* Variant: aluno.matricula without unique=True.
InsertUsuarioErr_NoMatricula(email, matriculas) ==
    IF \E r \in db.usuario : r.email = email THEN "unique"
    ELSE "none"

\* INSERT INTO usuario, then the profile rows: the unique indexes on
\* usuario.email and aluno.matricula decide.
InsertUsuarioErr(email, matriculas) ==
    IF \E r \in db.usuario : r.email = email THEN "unique"
    ELSE IF \E r \in db.aluno : r.matricula \in matriculas THEN "unique"
    ELSE "none"

\* Variant: the branch without line 117, the role switched and no profile
\* attached.
AlunoExistente_NoAttach(u, al, matricula) ==
    [NoWork EXCEPT !.tipo = IF u.tipo # "aluno" THEN {"aluno"} ELSE {}]

\* Variant: the branch without `if u.aluno is None`.
AlunoExistente_AlwaysAttach(u, al, matricula) ==
    [NoWork EXCEPT !.tipo = IF u.tipo # "aluno" THEN {"aluno"} ELSE {},
                   !.aluno = {matricula}]

\* The branch for a stored Usuario: `al` is what loading u.aluno finds.
AlunoExistente(u, al, matricula) ==
    [NoWork EXCEPT !.tipo = IF u.tipo # "aluno" THEN {"aluno"} ELSE {},
                   !.aluno = IF al = {} THEN {matricula} ELSE {}]

BodyAluno(p) ==
    LET s == ses[p]
        a == s.args
    IN  /\ s.pc = "body" /\ s.op = "aluno"
        /\ IF s.u # {}
           THEN LET u == The(s.u)
                    al == {x \in db.aluno : x.id_aluno = u.id_usuario}
                    w == AlunoExistente(u, al, a.matricula)
                IN  /\ ses' = [ses EXCEPT ![p] =
                                 Returned([s EXCEPT !.uow = w],
                                          [u EXCEPT !.tipo = "aluno"], FALSE)]
                    /\ UNCHANGED seq
           ELSE /\ ~InsertUsuarioWaits(p, a.email, {a.matricula})
                /\ \E salt \in Salts :
                     LET u == Usuario(seq.usuario, a.nome, a.email,
                                      hash_senha_bcrypt(a.senha_plana, salt), "aluno")
                         err == InsertUsuarioErr(a.email, {a.matricula})
                     IN  ses' = [ses EXCEPT ![p] =
                                   IF err # "none" THEN Raised(s, err)
                                   ELSE Returned([s EXCEPT !.tx.usuario = {u},
                                                    !.tx.aluno = {Aluno(u.id_usuario, a.matricula)}],
                                                 u, TRUE)]
                /\ seq' = [seq EXCEPT !.usuario = @ + 1]
        /\ UNCHANGED <<db, calls, cfg>>

----------------------------------------------------------------------------
(* get_or_create_usuario_professor *)

CallProfessor(p) ==
    /\ CanCall(p)
    /\ \E a \in ArgsUsuario : Start(p, "professor", a, Lookup("professor", a))

\* Variant: the branch without `if u.professor is None`.
ProfessorExistente_AlwaysAttach(u, pr) ==
    [NoWork EXCEPT !.tipo = IF u.tipo # "professor" THEN {"professor"} ELSE {},
                   !.professor = TRUE]

\* Variant: the branch without `u.tipo = "professor"`.
ProfessorExistente_NoTipo(u, pr) == [NoWork EXCEPT !.professor = (pr = {})]

\* The branch for a stored Usuario: `pr` is what loading u.professor finds.
ProfessorExistente(u, pr) ==
    [NoWork EXCEPT !.tipo = IF u.tipo # "professor" THEN {"professor"} ELSE {},
                   !.professor = (pr = {})]

BodyProfessor(p) ==
    LET s == ses[p]
        a == s.args
    IN  /\ s.pc = "body" /\ s.op = "professor"
        /\ IF s.u # {}
           THEN LET u == The(s.u)
                    pr == {x \in db.professor : x.id_professor = u.id_usuario}
                    w == ProfessorExistente(u, pr)
                IN  /\ ses' = [ses EXCEPT ![p] =
                                 Returned([s EXCEPT !.uow = w],
                                          [u EXCEPT !.tipo = "professor"], FALSE)]
                    /\ UNCHANGED seq
           ELSE /\ ~InsertUsuarioWaits(p, a.email, {})
                /\ \E salt \in Salts :
                     LET u == Usuario(seq.usuario, a.nome, a.email,
                                      hash_senha_bcrypt(a.senha_plana, salt), "professor")
                         err == InsertUsuarioErr(a.email, {})
                     IN  ses' = [ses EXCEPT ![p] =
                                   IF err # "none" THEN Raised(s, err)
                                   ELSE Returned([s EXCEPT !.tx.usuario = {u},
                                                    !.tx.professor = {Professor(u.id_usuario)}],
                                                 u, TRUE)]
                /\ seq' = [seq EXCEPT !.usuario = @ + 1]
        /\ UNCHANGED <<db, calls, cfg>>

----------------------------------------------------------------------------
(* criar_usuario_admin *)

CallAdmin(p) ==
    /\ CanCall(p)
    /\ \E a \in ArgsUsuario : Start(p, "admin", a, Lookup("admin", a))

\* Variant: the branch with the `u.tipo = ...` of the other two services.
AdminExistente_Coerces(u) ==
    [NoWork EXCEPT !.tipo = IF u.tipo # "admin" THEN {"admin"} ELSE {}]

\* The branch for a stored Usuario: nothing is set on it.
AdminExistente(u) == NoWork

BodyAdmin(p) ==
    LET s == ses[p]
        a == s.args
    IN  /\ s.pc = "body" /\ s.op = "admin"
        /\ IF s.u # {}
           THEN /\ ses' = [ses EXCEPT ![p] =
                             Returned([s EXCEPT !.uow = AdminExistente(The(s.u))],
                                      The(s.u), FALSE)]
                /\ UNCHANGED seq
           ELSE /\ ~InsertUsuarioWaits(p, a.email, {})
                /\ \E salt \in Salts :
                     LET u == Usuario(seq.usuario, a.nome, a.email,
                                      hash_senha_bcrypt(a.senha_plana, salt), "admin")
                         err == InsertUsuarioErr(a.email, {})
                     IN  ses' = [ses EXCEPT ![p] =
                                   IF err # "none" THEN Raised(s, err)
                                   ELSE Returned([s EXCEPT !.tx.usuario = {u}], u, TRUE)]
                /\ seq' = [seq EXCEPT !.usuario = @ + 1]
        /\ UNCHANGED <<db, calls, cfg>>

----------------------------------------------------------------------------
(* atualizar_usuario_basico *)

CallAtualizar(p) ==
    /\ CanCall(p)
    /\ \E a \in ArgsAtualizar : Start(p, "atualizar", a, Lookup("atualizar", a))

\* An attribute set to the value it already has adds nothing to the UPDATE.
Changed(old, new) == IF new = old THEN {} ELSE {new}

\* Variant: `if nova_senha is not None` in place of `if nova_senha`.
NovaSenha_NotNone(nova_senha, salt) ==
    IF nova_senha # {} THEN {hash_senha_bcrypt(The(nova_senha), salt)} ELSE {}

\* `if nova_senha: u.senha = hash_senha_bcrypt(nova_senha)`: None and ""
\* are both false.
NovaSenha(nova_senha, salt) ==
    IF nova_senha \notin {{}, {""}} THEN {hash_senha_bcrypt(The(nova_senha), salt)} ELSE {}

BodyAtualizar(p) ==
    LET s == ses[p]
        a == s.args
    IN  /\ s.pc = "body" /\ s.op = "atualizar"
        /\ IF s.u = {}
           THEN ses' = [ses EXCEPT ![p] = Returned(s, FALSE, FALSE)]
           ELSE \E salt \in Salts :
                  LET u == The(s.u)
                      w == [s.uow EXCEPT
                              !.nome = Changed(u.nome, a.nome),
                              !.email = Changed(u.email, a.email),
                              !.tipo = Changed(u.tipo, a.tipo),
                              !.senha = NovaSenha(a.nova_senha, salt)]
                  IN  ses' = [ses EXCEPT ![p] = Returned([s EXCEPT !.uow = w], TRUE, FALSE)]
        /\ UNCHANGED <<db, seq, calls, cfg>>

----------------------------------------------------------------------------
(* deletar_usuario *)

CallDeletar(p) ==
    /\ CanCall(p)
    /\ \E a \in ArgsDeletar : Start(p, "deletar", a, Lookup("deletar", a))

\* s.delete(u) marks u; its `registros` collection, which has no delete
\* cascade, is loaded so that the flush can detach its members.
BodyDeletar(p) ==
    LET s == ses[p]
    IN  /\ s.pc = "body" /\ s.op = "deletar"
        /\ IF s.u = {}
           THEN ses' = [ses EXCEPT ![p] = Returned(s, FALSE, FALSE)]
           ELSE LET u == The(s.u)
                    w == [s.uow EXCEPT
                            !.delete = TRUE,
                            !.registros = {r \in db.registro : r.id_usuario = u.id_usuario}]
                IN  ses' = [ses EXCEPT ![p] = Returned([s EXCEPT !.uow = w], TRUE, FALSE)]
        /\ UNCHANGED <<db, seq, calls, cfg>>

----------------------------------------------------------------------------
(* get_or_create_sala *)

CallSala(p) ==
    /\ CanCall(p)
    /\ \E a \in ArgsSala : Start(p, "sala", a, Lookup("sala", a))

\* INSERT INTO sala: the check constraint, then the unique index on nome_sala.
InsertSalaErr(nome, capacidade) ==
    IF ~ck_sala_capacidade(capacidade) THEN "check"
    ELSE IF \E r \in db.sala : r.nome_sala = nome THEN "unique"
    ELSE "none"

InsertSalaWaits(p, nome, capacidade) ==
    /\ ck_sala_capacidade(capacidade)
    /\ \E r \in OtherTx(p, "sala") : r.nome_sala = nome

BodySala(p) ==
    LET s == ses[p]
        a == s.args
    IN  /\ s.pc = "body" /\ s.op = "sala"
        /\ IF s.u # {}
           THEN /\ ses' = [ses EXCEPT ![p] = Returned(s, The(s.u), FALSE)]
                /\ UNCHANGED seq
           ELSE /\ ~InsertSalaWaits(p, a.nome, a.capacidade)
                /\ LET sala == Sala(seq.sala, a.nome, a.capacidade)
                       err == InsertSalaErr(a.nome, a.capacidade)
                   IN  ses' = [ses EXCEPT ![p] =
                                 IF err # "none" THEN Raised(s, err)
                                 ELSE Returned([s EXCEPT !.tx.sala = {sala}], sala, TRUE)]
                /\ seq' = [seq EXCEPT !.sala = @ + 1]
        /\ UNCHANGED <<db, calls, cfg>>

----------------------------------------------------------------------------
(* registrar_idempotente *)

CallRegistrar(p) ==
    /\ CanCall(p)
    /\ \E a \in ArgsRegistrar : Start(p, "registrar", a, Lookup("registrar", a))

\* Variant: the table without UniqueConstraint uq_registro.
InsertRegistroErr_NoUnique(r) ==
    IF \A x \in db.usuario : x.id_usuario # r.id_usuario THEN "fk"
    ELSE IF \A x \in db.sala : x.id_sala # r.id_sala THEN "fk"
    ELSE "none"

\* Variant: the two columns without ForeignKey.
InsertRegistroErr_NoFk(r) ==
    IF \E x \in db.registro : uq_registro(x) = uq_registro(r) THEN "unique"
    ELSE "none"

\* INSERT INTO registro: the unique index uq_registro, then the two
\* foreign keys.
InsertRegistroErr(r) ==
    IF \E x \in db.registro : uq_registro(x) = uq_registro(r) THEN "unique"
    ELSE IF \A x \in db.usuario : x.id_usuario # r.id_usuario THEN "fk"
    ELSE IF \A x \in db.sala : x.id_sala # r.id_sala THEN "fk"
    ELSE "none"

InsertRegistroWaits(p, r) ==
    \E x \in OtherTx(p, "registro") : uq_registro(x) = uq_registro(r)

BodyRegistrar(p) ==
    LET s == ses[p]
        a == s.args
    IN  /\ s.pc = "body" /\ s.op = "registrar"
        /\ IF s.u # {}
           THEN /\ ses' = [ses EXCEPT ![p] = Returned(s, The(s.u), FALSE)]
                /\ UNCHANGED seq
           ELSE /\ ~InsertRegistroWaits(p, Registro(seq.registro, a.id_usuario, a.id_sala, a.dia))
                /\ LET r == Registro(seq.registro, a.id_usuario, a.id_sala, a.dia)
                       err == InsertRegistroErr(r)
                   IN  ses' = [ses EXCEPT ![p] =
                                 IF err # "none" THEN Raised(s, err)
                                 ELSE Returned([s EXCEPT !.tx.registro = {r}], r, TRUE)]
                /\ seq' = [seq EXCEPT !.registro = @ + 1]
        /\ UNCHANGED <<db, calls, cfg>>

----------------------------------------------------------------------------
(* listar_registros *)

\* Variant: the statement without `if dia: stmt = stmt.where(...)`.
listar_registros_NoFilter(d, dia) ==
    {[id_registro |-> r.id_registro,
      data |-> r.data_registro,
      usuario |-> <<u.id_usuario, u.nome, u.tipo>>,
      sala |-> <<sl.id_sala, sl.nome_sala>>] :
        <<r, u, sl>> \in {t \in d.registro \X d.usuario \X d.sala :
                            /\ t[1].id_usuario = t[2].id_usuario
                            /\ t[1].id_sala = t[3].id_sala}}

\* The rows of select(Registro).join(Registro.usuario).join(Registro.sala),
\* filtered by day when one is given (dia is {} for None), as the dicts the
\* service builds from them.
listar_registros(d, dia) ==
    {[id_registro |-> r.id_registro,
      data |-> r.data_registro,
      usuario |-> <<u.id_usuario, u.nome, u.tipo>>,
      sala |-> <<sl.id_sala, sl.nome_sala>>] :
        <<r, u, sl>> \in {t \in d.registro \X d.usuario \X d.sala :
                            /\ t[1].id_usuario = t[2].id_usuario
                            /\ t[1].id_sala = t[3].id_sala
                            /\ (dia = {} \/ t[1].data_registro \in dia)}}

\* A listing is called from the idle form or right after another call, as
\* the refresh that follows a save.
CanQuery(p) ==
    /\ p \in cfg.apps
    /\ ses[p].pc \in {"idle", "done"}
    /\ calls < cfg.budget

\* The sequences that list every member of S once.
Perms(S) ==
    {f \in [1..Cardinality(S) -> S] : \A x \in S : \E i \in 1..Cardinality(S) : f[i] = x}

ArgsListarRegistros == [dia : {{}} \cup {{d} : d \in Dias}]

CallListarRegistros(p) ==
    /\ CanQuery(p)
    /\ \E a \in ArgsListarRegistros : Start(p, "listar_registros", a, {})

\* The SELECT has no ORDER BY: the rows come in any order.
BodyListarRegistros(p) ==
    LET s == ses[p]
    IN  /\ s.pc = "body" /\ s.op = "listar_registros"
        /\ \E rows \in Perms(listar_registros(db, s.args.dia)) :
              ses' = [ses EXCEPT ![p] = Returned(s, rows, FALSE)]
        /\ UNCHANGED <<db, seq, calls, cfg>>

----------------------------------------------------------------------------
(* listar_usuarios *)

ArgsListarUsuarios == [tipo : {{}} \cup {{x} : x \in Tipos}]

\* Variant: the WHERE clause left out.
ByTipo_All(tipo) == db.usuario

\* select(Usuario), with .where(Usuario.tipo == tipo) `if tipo`
ByTipo(tipo) ==
    IF tipo \in {{}, {""}} THEN db.usuario
    ELSE {r \in db.usuario : r.tipo \in tipo}

\* The position of a nome in the collation of the column.
Collate(nome) == CASE nome = "Ana" -> 1 [] nome = "Bia" -> 2

\* ORDER BY nome: rows with equal nome come in any order.
OrderByNome(S) ==
    {f \in Perms(S) :
        \A i, j \in 1..Cardinality(S) : i < j => Collate(f[i].nome) <= Collate(f[j].nome)}

CallListarUsuarios(p) ==
    /\ CanQuery(p)
    /\ \E a \in ArgsListarUsuarios : Start(p, "listar_usuarios", a, {})

BodyListarUsuarios(p) ==
    LET s == ses[p]
    IN  /\ s.pc = "body" /\ s.op = "listar_usuarios"
        /\ \E rows \in OrderByNome(ByTipo(s.args.tipo)) :
              ses' = [ses EXCEPT ![p] = Returned(s, rows, FALSE)]
        /\ UNCHANGED <<db, seq, calls, cfg>>

----------------------------------------------------------------------------
(* verificar_senha *)

Plaintexts == {"pw123", "pw456"}

\* The strings verificar_senha is given: the stored hashes, hashes of the
\* known passwords, and the two that are not hashes.
HashStrings ==
    {r.senha : r \in db.usuario}
        \cup {hash_senha_bcrypt(x, salt) : x \in Plaintexts, salt \in Salts}
        \cup {NoHash, CutHash}

\* The function opens no session: the caller has its result, or its
\* exception, at once.
Verificar(p) ==
    /\ CanCall(p)
    /\ \E senha_plana \in Plaintexts, senha_hash \in HashStrings :
          LET v == verificar_senha(senha_plana, senha_hash)
          IN  ses' = [ses EXCEPT ![p] =
                        [Idle EXCEPT !.pc = "done", !.op = "verificar",
                                     !.args = [senha_plana |-> senha_plana,
                                               senha_hash |-> senha_hash],
                                     !.ret = {[val |-> x, created |-> FALSE] : x \in v.ret},
                                     !.err = v.err,
                                     !.id = calls + 1, !.pre = db]]
    /\ calls' = calls + 1
    /\ UNCHANGED <<db, seq, cfg>>

----------------------------------------------------------------------------
(* get_session: commit, rollback, close *)

\* The Usuario row the pending unit of work is about.
Target(s) == The(s.u).id_usuario

HasUpdate(w) == w.nome # {} \/ w.email # {} \/ w.tipo # {} \/ w.senha # {}

\* Variant: usuario.email without unique=True.
UpdateErr_NoUnique(s) ==
    LET w == s.uow
    IN  IF ~HasUpdate(w) THEN "none"
        ELSE IF GetUsuario(Target(s)) = {} THEN "stale"
        ELSE IF w.tipo # {} /\ ~ck_usuario_tipo(The(w.tipo)) THEN "check"
        ELSE "none"

\* UPDATE usuario SET <changed columns> WHERE id_usuario = :id
UpdateErr(s) ==
    LET w == s.uow
    IN  IF ~HasUpdate(w) THEN "none"
        ELSE IF GetUsuario(Target(s)) = {} THEN "stale"
        ELSE IF w.tipo # {} /\ ~ck_usuario_tipo(The(w.tipo)) THEN "check"
        ELSE IF /\ w.email # {}
                /\ \E r \in db.usuario : r.id_usuario # Target(s) /\ r.email = The(w.email)
             THEN "unique"
        ELSE "none"

\* Variant: aluno.matricula without unique=True.
ProfileErr_NoMatricula(s) ==
    LET w == s.uow
    IN  IF w.aluno # {} /\ (\E x \in db.aluno : x.id_aluno = Target(s)) THEN "unique"
        ELSE IF w.professor /\ (\E x \in db.professor : x.id_professor = Target(s)) THEN "unique"
        ELSE IF (w.aluno # {} \/ w.professor) /\ GetUsuario(Target(s)) = {} THEN "fk"
        ELSE "none"

\* INSERT INTO aluno / professor for a Usuario that was already stored
ProfileErr(s) ==
    LET w == s.uow
    IN  IF w.aluno # {} /\ (\E x \in db.aluno : x.id_aluno = Target(s)) THEN "unique"
        ELSE IF w.aluno # {} /\ (\E x \in db.aluno : x.matricula \in w.aluno) THEN "unique"
        ELSE IF w.professor /\ (\E x \in db.professor : x.id_professor = Target(s)) THEN "unique"
        ELSE IF (w.aluno # {} \/ w.professor) /\ GetUsuario(Target(s)) = {} THEN "fk"
        ELSE "none"

\* The flush of a deleted Usuario detaches the loaded `registros` with
\* UPDATE registro SET id_usuario = NULL, and the column is NOT NULL.
DeleteErr(s) ==
    LET w == s.uow
    IN  IF ~w.delete \/ w.registros = {} THEN "none"
        ELSE IF w.registros \cap db.registro # {} THEN "not_null"
        ELSE "stale"

FlushErr(s) ==
    IF UpdateErr(s) # "none" THEN UpdateErr(s)
    ELSE IF ProfileErr(s) # "none" THEN ProfileErr(s)
    ELSE DeleteErr(s)

\* A statement of the flush waits for a lock another session's uncommitted
\* INSERT holds: on a unique key, or on the Usuario row a Registro refers to.
CommitWaits(p) ==
    LET s == ses[p]
        w == s.uow
    IN  /\ UpdateErr(s) = "none"
        /\ \/ w.email # {} /\ \E r \in OtherTx(p, "usuario") : r.email = The(w.email)
           \/ w.aluno # {} /\ \E r \in OtherTx(p, "aluno") : r.matricula \in w.aluno
           \/ /\ w.delete /\ w.registros = {}
              /\ \E r \in OtherTx(p, "registro") : r.id_usuario = Target(s)

Updated(r, w) ==
    [r EXCEPT !.nome = IF w.nome # {} THEN The(w.nome) ELSE @,
              !.email = IF w.email # {} THEN The(w.email) ELSE @,
              !.tipo = IF w.tipo # {} THEN The(w.tipo) ELSE @,
              !.senha = IF w.senha # {} THEN The(w.senha) ELSE @]

\* Variant: registro.id_usuario without ondelete="CASCADE".
DeleteCascade_KeepsRegistro(d, id) ==
    [d EXCEPT !.usuario = {r \in @ : r.id_usuario # id},
              !.aluno = {r \in @ : r.id_aluno # id},
              !.professor = {r \in @ : r.id_professor # id}]

\* Variant: Usuario.aluno and aluno.id_aluno without their delete cascades.
DeleteCascade_KeepsAluno(d, id) ==
    [d EXCEPT !.usuario = {r \in @ : r.id_usuario # id},
              !.professor = {r \in @ : r.id_professor # id},
              !.registro = {r \in @ : r.id_usuario # id}]

\* DELETE FROM usuario WHERE id_usuario = :id, with the cascades: the ORM's
\* for aluno and professor, ON DELETE CASCADE for all three child tables.
DeleteCascade(d, id) ==
    [d EXCEPT !.usuario = {r \in @ : r.id_usuario # id},
              !.aluno = {r \in @ : r.id_aluno # id},
              !.professor = {r \in @ : r.id_professor # id},
              !.registro = {r \in @ : r.id_usuario # id}]

\* The committed rows once the flush has run and the transaction committed.
Flushed(s) ==
    LET w == s.uow
        d1 == IF HasUpdate(w)
              THEN [db EXCEPT !.usuario =
                      {IF r.id_usuario = Target(s) THEN Updated(r, w) ELSE r : r \in @}]
              ELSE db
        d2 == [d1 EXCEPT !.aluno = @ \cup {Aluno(Target(s), m) : m \in w.aluno},
                         !.professor = @ \cup IF w.professor THEN {Professor(Target(s))} ELSE {}]
        d3 == IF w.delete THEN DeleteCascade(d2, Target(s)) ELSE d2
    IN  [t \in Tables |-> d3[t] \cup s.tx[t]]

Commit(p) ==
    LET s == ses[p]
        t == [s EXCEPT !.trace = Append(@, "commit")]
    IN  /\ s.pc = "commit"
        /\ ~CommitWaits(p)
        /\ IF FlushErr(s) = "none"
           THEN /\ db' = Flushed(s)
                /\ ses' = [ses EXCEPT ![p] =
                             [t EXCEPT !.pc = "close", !.tx = EmptyDb, !.uow = NoWork]]
           ELSE /\ db' = db
                /\ ses' = [ses EXCEPT ![p] = Raised(t, FlushErr(s))]
        /\ UNCHANGED <<seq, calls, cfg>>

Rollback(p) ==
    LET s == ses[p]
    IN  /\ s.pc = "rollback"
        /\ ses' = [ses EXCEPT ![p] =
                     [s EXCEPT !.pc = "close", !.tx = EmptyDb, !.uow = NoWork,
                               !.trace = Append(@, "rollback")]]
        /\ UNCHANGED <<db, seq, calls, cfg>>

Close(p) ==
    LET s == ses[p]
    IN  /\ s.pc = "close"
        /\ ses' = [ses EXCEPT ![p] = [s EXCEPT !.pc = "done", !.trace = Append(@, "close")]]
        /\ UNCHANGED <<db, seq, calls, cfg>>

----------------------------------------------------------------------------
(* The caller *)

\* The caller takes the result (or the error) and goes on.
Return(p) ==
    /\ ses[p].pc = "done"
    /\ ses' = [ses EXCEPT ![p] = Idle]
    /\ UNCHANGED <<db, seq, calls, cfg>>

\* The caller makes the same call again at once; for get_or_create_sala
\* the capacity may differ.
RepeatArgs(s) ==
    IF s.op = "sala" THEN {[s.args EXCEPT !.capacidade = c] : c \in Capacidades}
    ELSE {s.args}

Repetir(p) ==
    /\ p \in cfg.apps
    /\ ses[p].pc = "done"
    /\ ses[p].prev = {}
    /\ ses[p].op # "verificar"
    /\ calls < cfg.budget
    /\ \E a \in RepeatArgs(ses[p]) : Start(p, ses[p].op, a, Lookup(ses[p].op, a))

----------------------------------------------------------------------------
(* Specifications *)

InitStore ==
    /\ db = EmptyDb
    /\ seq = [usuario |-> 1, sala |-> 1, registro |-> 1]
    /\ ses = [p \in Procs |-> Idle]
    /\ calls = 0

\* One client.
Init ==
    /\ InitStore
    /\ cfg = [apps |-> {1}, budget |-> MaxCalls]

Next ==
    \E p \in Procs :
        \/ CallAluno(p) \/ BodyAluno(p)
        \/ CallProfessor(p) \/ BodyProfessor(p)
        \/ CallAdmin(p) \/ BodyAdmin(p)
        \/ CallAtualizar(p) \/ BodyAtualizar(p)
        \/ CallDeletar(p) \/ BodyDeletar(p)
        \/ CallSala(p) \/ BodySala(p)
        \/ CallRegistrar(p) \/ BodyRegistrar(p)
        \/ Commit(p) \/ Rollback(p) \/ Close(p)
        \/ Return(p) \/ Repetir(p)

Spec == Init /\ [][Next]_vars

\* Two clients on one database.  They start either on the empty schema or
\* on the rows that get_or_create_usuario_aluno("Ana", "ana@x.com", "pw123",
\* "S1") and get_or_create_sala("A101", 10) leave in it, a state of Spec.
SeedDb ==
    [EmptyDb EXCEPT
       !.usuario = {Usuario(1, "Ana", "ana@x.com", hash_senha_bcrypt("pw123", "saltA"), "aluno")},
       !.aluno = {Aluno(1, "S1")},
       !.sala = {Sala(1, "A101", 10)}]

InitConc ==
    /\ \/ db = EmptyDb /\ seq = [usuario |-> 1, sala |-> 1, registro |-> 1]
       \/ db = SeedDb /\ seq = [usuario |-> 2, sala |-> 2, registro |-> 1]
    /\ ses = [p \in Procs |-> Idle]
    /\ calls = 0
    /\ cfg = [apps |-> Procs, budget |-> MaxConcCalls]

ConcSpec == InitConc /\ [][Next]_vars

\* Two clients on the empty schema, every started call run to its end: the
\* interpreter executes a call's statements one after the other, and a
\* statement that waits for a lock goes on when the holder's transaction ends.
InitFair ==
    /\ InitStore
    /\ cfg = [apps |-> Procs, budget |-> MaxFairCalls]

Step(p) ==
    \/ BodyAluno(p) \/ BodyProfessor(p) \/ BodyAdmin(p) \/ BodyAtualizar(p)
    \/ BodyDeletar(p) \/ BodySala(p) \/ BodyRegistrar(p)
    \/ Commit(p) \/ Rollback(p) \/ Close(p)

FairSpec == InitFair /\ [][Next]_vars /\ \A p \in Procs : WF_vars(Step(p))

\* One client that also lists and verifies passwords, on the empty schema
\* or on the rows of SeedDb.
InitRead ==
    /\ \/ db = EmptyDb /\ seq = [usuario |-> 1, sala |-> 1, registro |-> 1]
       \/ db = SeedDb /\ seq = [usuario |-> 2, sala |-> 2, registro |-> 1]
    /\ ses = [p \in Procs |-> Idle]
    /\ calls = 0
    /\ cfg = [apps |-> {1}, budget |-> MaxReadCalls]

NextRead ==
    \/ Next
    \/ \E p \in Procs :
          \/ CallListarRegistros(p) \/ BodyListarRegistros(p)
          \/ CallListarUsuarios(p) \/ BodyListarUsuarios(p)
          \/ Verificar(p)

ReadSpec == InitRead /\ [][NextRead]_vars

\* One client that uses every service, and atualizar_usuario_basico at
\* most once, as its last call.
ReturnRole(p) == ses[p].op # "atualizar" /\ Return(p)

RepetirRole(p) == ses[p].op # "atualizar" /\ Repetir(p)

NextRole ==
    \E p \in Procs :
        \/ CallAluno(p) \/ BodyAluno(p)
        \/ CallProfessor(p) \/ BodyProfessor(p)
        \/ CallAdmin(p) \/ BodyAdmin(p)
        \/ CallAtualizar(p) \/ BodyAtualizar(p)
        \/ CallDeletar(p) \/ BodyDeletar(p)
        \/ CallSala(p) \/ BodySala(p)
        \/ CallRegistrar(p) \/ BodyRegistrar(p)
        \/ Commit(p) \/ Rollback(p) \/ Close(p)
        \/ ReturnRole(p) \/ RepetirRole(p)

RoleSpec == Init /\ [][NextRole]_vars

----------------------------------------------------------------------------
(* Properties *)

Done(s) == s.pc = "done"

\* The call returned (entity, True).
Created(s) == s.ret # {} /\ The(s.ret).created

\* C1: in every reachable state, under every interleaving of
\* registrar_idempotente with the other services, no two committed Registro
\* rows have the same (id_usuario, id_sala, data_registro).
C1_UniqueTriple ==
    \A r1, r2 \in db.registro : uq_registro(r1) = uq_registro(r2) => r1 = r2

\* Two clients raced on one triple: both found nothing, one committed the
\* row and the other was refused by the unique index.
C1_Witness ==
    \E p, q \in Procs :
        /\ p # q /\ Done(ses[p]) /\ Done(ses[q])
        /\ ses[p].op = "registrar" /\ ses[q].op = "registrar"
        /\ ses[p].args = ses[q].args
        /\ ses[q].id \in ses[p].rivals
        /\ Created(ses[q])
        /\ ses[p].err = "unique"
        /\ Cardinality(Lookup("registrar", ses[p].args)) = 1

\* C2: deletar_usuario(id) on a stored Usuario that has an Aluno profile
\* and at least one Registro returns True and removes the Usuario, its
\* profiles and all its Registro rows; none of them is found afterwards and
\* listar_registros for the rows' day no longer shows them.
C2_DeleteCascades ==
    \A p \in Procs :
        LET s == ses[p]
            id == s.args.id_usuario
        IN  (/\ Done(s) /\ s.op = "deletar" /\ s.u # {}
             /\ \E x \in s.pre.aluno : x.id_aluno = id
             /\ \E r \in s.pre.registro : r.id_usuario = id)
            => /\ s.ret = {[val |-> TRUE, created |-> FALSE]}
               /\ \A x \in db.usuario : x.id_usuario # id
               /\ \A x \in db.aluno : x.id_aluno # id
               /\ \A x \in db.professor : x.id_professor # id
               /\ \A r \in db.registro : r.id_usuario # id
               /\ \A r \in {x \in s.pre.registro : x.id_usuario = id} :
                     \A row \in listar_registros(db, {r.data_registro}) :
                         row.id_registro # r.id_registro

\* The arguments of the call satisfy the check constraints of its table.
ArgsValid(s) == s.op = "sala" => s.args.capacidade >= 0

\* The call raised, was rolled back, and the error is the unique violation.
Lost(s) ==
    /\ s.ret = {}
    /\ s.err # "none"
    /\ ArgsValid(s) => s.err = "unique"
    /\ s.trace \in {<<"open", "rollback", "close">>, <<"open", "commit", "rollback", "close">>}

C4_Case(s) ==
    /\ s.op = "aluno" /\ s.u # {}
    /\ The(s.u).tipo # "aluno"
    /\ \A x \in s.pre.aluno : x.id_aluno # The(s.u).id_usuario
    /\ \E x \in s.pre.aluno : x.matricula = s.args.matricula

\* C4: every service call is all-or-nothing: nothing of it is committed
\* before its commit, and a call that fails at any step, the commit
\* included, leaves the committed rows as they were before the call.  In
\* particular the call of C4_Case fails, and the Usuario keeps its tipo and
\* gets no profile.
C4_AllOrNothing ==
    \A p \in Procs :
        LET s == ses[p]
        IN  /\ s.pc \in {"body", "commit", "rollback"} => db = s.pre
            /\ (s.pc \in {"close", "done"} /\ s.err # "none") => (db = s.pre /\ s.ret = {})
            /\ (Done(s) /\ C4_Case(s))
                  => /\ s.err = "unique" /\ s.ret = {}
                     /\ The(s.u) \in db.usuario
                     /\ \A x \in db.aluno : x.id_aluno # The(s.u).id_usuario

C4_Witness ==
    \E p \in Procs :
        /\ Done(ses[p]) /\ C4_Case(ses[p])
        /\ ses[p].err = "unique"
        /\ ses[p].trace = <<"open", "commit", "rollback", "close">>
        /\ db = ses[p].pre

\* The session is open from SessionLocal() until s.close().
SessionOpen(s) == s.trace # <<>> /\ s.trace[Len(s.trace)] # "close"

\* The session events of a finished call, by its outcome.
TraceOk(s) ==
    IF s.err = "none"
    THEN s.ret # {} /\ s.trace = <<"open", "commit", "close">>
    ELSE /\ s.ret = {}
         /\ s.trace \in {<<"open", "rollback", "close">>,
                         <<"open", "commit", "rollback", "close">>}

\* C5: the session a service call opens is eventually closed on every exit
\* path: a body that completes is followed by a commit, a body or commit
\* that raises by a rollback and the error reaches the caller, the close
\* comes last, and no session is open once the call has returned or raised.
C5_SessionAlwaysClosed ==
    /\ [](\A p \in Procs : Done(ses[p]) => (TraceOk(ses[p]) /\ ~SessionOpen(ses[p])))
    /\ [](\A p \in Procs : ses[p].pc = "idle" => ~SessionOpen(ses[p]))
    /\ \A p \in Procs : []<>(~SessionOpen(ses[p]))

\* A call whose commit raised has been rolled back and closed.
C5_Witness ==
    \E p \in Procs :
        /\ Done(ses[p])
        /\ ses[p].err # "none"
        /\ ses[p].trace = <<"open", "commit", "rollback", "close">>

\* C6: registrar_idempotente(P, R, d) called twice in a row, P and R stored
\* and no Registro for the triple before, returns created = True and then
\* False, the same Registro both times, and the table grows by one row.
C6_RegistrarTwice ==
    \A p \in Procs :
        LET s == ses[p]
        IN  (/\ Done(s) /\ s.op = "registrar" /\ s.prev # {}
             /\ The(s.prev).op = "registrar" /\ The(s.prev).args = s.args
             /\ \E x \in The(s.prev).pre.usuario : x.id_usuario = s.args.id_usuario
             /\ \E x \in The(s.prev).pre.sala : x.id_sala = s.args.id_sala
             /\ \A r \in The(s.prev).pre.registro :
                   uq_registro(r) # <<s.args.id_usuario, s.args.id_sala, s.args.dia>>)
            => /\ The(s.prev).ret # {} /\ The(The(s.prev).ret).created
               /\ s.ret # {} /\ ~The(s.ret).created
               /\ The(s.ret).val.id_registro = The(The(s.prev).ret).val.id_registro
               /\ Cardinality(db.registro) = Cardinality(The(s.prev).pre.registro) + 1

C6_Witness ==
    \E p \in Procs :
        LET s == ses[p]
        IN  /\ Done(s) /\ s.op = "registrar" /\ s.prev # {}
            /\ Created(The(s.prev))
            /\ s.ret # {} /\ ~The(s.ret).created
            /\ The(s.ret).val = The(The(s.prev).ret).val
            /\ Cardinality(db.registro) = 1

\* C7: get_or_create_sala(nome, c) on a stored name returns that Sala with
\* created = False and leaves it as it was, whatever c is; so after
\* get_or_create_sala(n, c1) has created the room, get_or_create_sala(n, c2)
\* leaves one Sala named n, with capacity c1.
C7_SalaUnchanged ==
    \A p \in Procs :
        LET s == ses[p]
        IN  (Done(s) /\ s.op = "sala")
            => /\ s.u # {} => /\ s.ret = {[val |-> The(s.u), created |-> FALSE]}
                              /\ db.sala = s.pre.sala
               /\ (/\ s.prev # {} /\ The(s.prev).op = "sala"
                   /\ The(s.prev).args.nome = s.args.nome
                   /\ Created(The(s.prev)))
                  => /\ s.ret # {} /\ ~The(s.ret).created
                     /\ The(s.ret).val = The(The(s.prev).ret).val
                     /\ \E r \in db.sala :
                           /\ r.capacidade = The(s.prev).args.capacidade
                           /\ {x \in db.sala : x.nome_sala = s.args.nome} = {r}

C7_Witness ==
    \E p \in Procs :
        LET s == ses[p]
        IN  /\ Done(s) /\ s.op = "sala" /\ s.prev # {}
            /\ Created(The(s.prev))
            /\ s.args.capacidade # The(s.prev).args.capacidade
            /\ s.ret # {} /\ The(s.ret).val.capacidade = The(s.prev).args.capacidade

\* C8: no two Usuario rows have the same email, whatever their tipo, and
\* atualizar_usuario_basico with an email another Usuario holds fails and
\* leaves both rows as they were.
C8_EmailUnique ==
    /\ \A r1, r2 \in db.usuario : r1.email = r2.email => r1 = r2
    /\ \A p \in Procs :
          LET s == ses[p]
          IN  (/\ Done(s) /\ s.op = "atualizar" /\ s.u # {}
               /\ \E o \in s.pre.usuario :
                     o.id_usuario # s.args.id_usuario /\ o.email = s.args.email)
              => /\ s.ret = {}
                 /\ s.err \in {"unique", "check"}
                 /\ s.args.tipo \in {"aluno", "professor", "admin"} => s.err = "unique"
                 /\ db.usuario = s.pre.usuario

C8_Witness ==
    \E p \in Procs :
        LET s == ses[p]
        IN  /\ Done(s) /\ s.op = "atualizar" /\ s.u # {}
            /\ \E o \in db.usuario :
                  /\ o.id_usuario # s.args.id_usuario /\ o.email = s.args.email
                  /\ o.tipo # The(s.u).tipo
            /\ s.err = "unique"
            /\ Cardinality(db.usuario) = 2

\* C9: the tipo of every Usuario row is 'aluno', 'professor' or 'admin', and
\* atualizar_usuario_basico of a stored Usuario with any other tipo fails
\* and leaves its nome, email, tipo and senha as they were.
C9_TipoEnumerated ==
    /\ \A r \in db.usuario : r.tipo \in {"aluno", "professor", "admin"}
    /\ \A p \in Procs :
          LET s == ses[p]
          IN  (/\ Done(s) /\ s.op = "atualizar" /\ s.u # {}
               /\ s.args.tipo \notin {"aluno", "professor", "admin"})
              => /\ s.ret = {}
                 /\ s.err = "check"
                 /\ The(s.u) \in db.usuario

C9_Witness ==
    \E p \in Procs :
        LET s == ses[p]
        IN  /\ Done(s) /\ s.op = "atualizar" /\ s.u # {}
            /\ s.args.tipo = "visitante"
            /\ s.args.nome # The(s.u).nome
            /\ s.args.email # The(s.u).email
            /\ s.args.nova_senha = {"pw456"}
            /\ s.err = "check"
            /\ The(s.u) \in db.usuario

\* C10: get_or_create_usuario_professor with the email of a stored Usuario
\* whose tipo is 'aluno' returns it with created = False, sets its tipo to
\* 'professor', attaches a Professor profile, and leaves its Aluno profile,
\* matricula included, in the table.
C10_ProfessorCoercion ==
    \A p \in Procs :
        LET s == ses[p]
        IN  (/\ Done(s) /\ s.op = "professor" /\ s.u # {}
             /\ The(s.u).tipo = "aluno")
            => /\ s.ret = {[val |-> [The(s.u) EXCEPT !.tipo = "professor"], created |-> FALSE]}
               /\ [The(s.u) EXCEPT !.tipo = "professor"] \in db.usuario
               /\ Professor(The(s.u).id_usuario) \in db.professor
               /\ \A x \in s.pre.aluno : x.id_aluno = The(s.u).id_usuario => x \in db.aluno
               /\ Cardinality(db.usuario) = Cardinality(s.pre.usuario)

C10_Witness ==
    \E p \in Procs :
        LET s == ses[p]
        IN  /\ Done(s) /\ s.op = "professor" /\ s.u # {}
            /\ The(s.u).tipo = "aluno"
            /\ \E x \in s.pre.aluno : x.id_aluno = The(s.u).id_usuario /\ x \in db.aluno
            /\ Professor(The(s.u).id_usuario) \notin s.pre.professor
            /\ Professor(The(s.u).id_usuario) \in db.professor
            /\ \E r \in db.usuario : r.id_usuario = The(s.u).id_usuario /\ r.tipo = "professor"

\* The call ended without an error and returned a value.
Succeeded(s) == s.err = "none" /\ s.ret # {}

\* C11: criar_usuario_admin with the email of a stored Usuario returns that
\* Usuario with created = False and changes no row: its tipo (whatever it
\* is), nome, senha and profiles stay, and no Usuario is added.
C11_AdminReturnsExisting ==
    \A p \in Procs :
        LET s == ses[p]
        IN  (/\ Done(s) /\ s.op = "admin"
             /\ \E x \in s.pre.usuario : x.email = s.args.email)
            => /\ s.err = "none"
               /\ \E x \in s.pre.usuario :
                     /\ x.email = s.args.email
                     /\ s.ret = {[val |-> x, created |-> FALSE]}
               /\ db = s.pre

\* criar_usuario_admin found a student that has its Aluno profile, and was
\* called with another name than the stored one.
C11_Witness ==
    \E p \in Procs :
        LET s == ses[p]
        IN  /\ Done(s) /\ s.op = "admin" /\ s.u # {}
            /\ The(s.u).tipo = "aluno"
            /\ The(s.u).nome # s.args.nome
            /\ Aluno(The(s.u).id_usuario, "S1") \in db.aluno
            /\ s.ret = {[val |-> The(s.u), created |-> FALSE]}
            /\ The(s.u) \in db.usuario

\* C12: atualizar_usuario_basico and deletar_usuario with an id no Usuario
\* has return False, raise nothing, and leave every table as it was.
C12_NotFoundIsFalse ==
    \A p \in Procs :
        LET s == ses[p]
        IN  (/\ Done(s) /\ s.op \in {"atualizar", "deletar"}
             /\ \A x \in s.pre.usuario : x.id_usuario # s.args.id_usuario)
            => /\ s.err = "none"
               /\ s.ret = {[val |-> FALSE, created |-> FALSE]}
               /\ s.trace = <<"open", "commit", "close">>
               /\ db = s.pre

\* deletar_usuario with an unknown id, while another Usuario with a usage
\* record is stored.
C12_Witness ==
    \E p \in Procs :
        LET s == ses[p]
        IN  /\ Done(s) /\ s.op = "deletar"
            /\ s.args.id_usuario \notin {x.id_usuario : x \in db.usuario}
            /\ db.usuario # {} /\ db.registro # {}
            /\ s.ret = {[val |-> FALSE, created |-> FALSE]}
            /\ db = s.pre

\* The Usuario row atualizar_usuario_basico leaves: nome, email and tipo
\* from the arguments, senha a hash of the new password if one was given.
UpdatedRows(u, a) ==
    {[u EXCEPT !.nome = a.nome, !.email = a.email, !.tipo = a.tipo, !.senha = h] :
        h \in IF a.nova_senha \in {{}, {""}} THEN {u.senha}
              ELSE {hash_senha_bcrypt(The(a.nova_senha), salt) : salt \in Salts}}

\* C13: a successful atualizar_usuario_basico on a stored Usuario sets its
\* nome, email and tipo, and its senha only when a new password is given
\* (None and "" leave the hash); its id, its Aluno and Professor profiles,
\* the other Usuario rows, the Sala and the Registro rows are unchanged.
C13_UpdateFrame ==
    \A p \in Procs :
        LET s == ses[p]
        IN  (/\ Done(s) /\ s.op = "atualizar" /\ s.u # {} /\ s.err = "none")
            => /\ s.ret = {[val |-> TRUE, created |-> FALSE]}
               /\ \E n \in UpdatedRows(The(s.u), s.args) :
                     db = [s.pre EXCEPT !.usuario = (@ \ s.u) \cup {n}]

\* An update with the empty string as new password changed nome, email and
\* tipo of a student and left its hash and its Aluno profile.
C13_Witness ==
    \E p \in Procs :
        LET s == ses[p]
        IN  /\ Done(s) /\ s.op = "atualizar" /\ s.u # {} /\ s.err = "none"
            /\ s.args.nova_senha = {""}
            /\ The(s.u).tipo = "aluno" /\ s.args.tipo = "professor"
            /\ s.args.nome # The(s.u).nome /\ s.args.email # The(s.u).email
            /\ \E x \in db.usuario :
                  /\ x.id_usuario = s.args.id_usuario
                  /\ x.tipo = "professor" /\ x.nome = s.args.nome
                  /\ x.senha = The(s.u).senha
            /\ \E x \in db.aluno : x.id_aluno = s.args.id_usuario
            /\ db.sala # {}

\* C14: registrar_idempotente with an id_usuario or id_sala that no Usuario
\* or Sala has (and no Registro for the triple) fails with the foreign-key
\* violation, inserts no Registro, and leaves every table as it was.
C14_DanglingFkFails ==
    \A p \in Procs :
        LET s == ses[p]
        IN  (/\ Done(s) /\ s.op = "registrar"
             /\ \/ \A x \in s.pre.usuario : x.id_usuario # s.args.id_usuario
                \/ \A x \in s.pre.sala : x.id_sala # s.args.id_sala
             /\ \A r \in s.pre.registro :
                   uq_registro(r) # <<s.args.id_usuario, s.args.id_sala, s.args.dia>>)
            => /\ s.err = "fk"
               /\ s.ret = {}
               /\ s.trace = <<"open", "rollback", "close">>
               /\ db = s.pre

\* The Usuario is stored and the Sala is not.
C14_Witness ==
    \E p \in Procs :
        LET s == ses[p]
        IN  /\ Done(s) /\ s.op = "registrar"
            /\ \E x \in db.usuario : x.id_usuario = s.args.id_usuario
            /\ \A x \in db.sala : x.id_sala # s.args.id_sala
            /\ db.sala # {}
            /\ s.err = "fk"
            /\ db.registro = {}

\* C15: in every reachable state, under every interleaving of
\* registrar_idempotente and deletar_usuario, each committed Registro refers
\* to a stored Usuario and a stored Sala.
C15_RegistroHasParents ==
    \A r \in db.registro :
        /\ \E u \in db.usuario : u.id_usuario = r.id_usuario
        /\ \E x \in db.sala : x.id_sala = r.id_sala

\* A deletar_usuario that found no Registro of its Usuario, and a
\* registrar_idempotente for that Usuario that committed before the DELETE:
\* the Usuario is gone and the new Registro with it.
C15_Witness ==
    \E p, q \in Procs :
        /\ Done(ses[p]) /\ ses[p].op = "deletar" /\ Succeeded(ses[p])
        /\ The(ses[p].ret).val = TRUE
        /\ Done(ses[q]) /\ ses[q].op = "registrar" /\ Created(ses[q])
        /\ ses[q].args.id_usuario = ses[p].args.id_usuario
        /\ ses[p].pre.registro = {}
        /\ db.registro = {}
        /\ \A u \in db.usuario : u.id_usuario # ses[p].args.id_usuario

\* get_or_create_usuario_aluno was called with a matricula that the Aluno
\* profile of another Usuario than the one with the given email holds.
MatriculaTaken(s) ==
    \E x \in s.pre.aluno :
        /\ x.matricula = s.args.matricula
        /\ \A o \in s.pre.usuario : o.email = s.args.email => o.id_usuario # x.id_aluno

\* The Usuario with the email of the call has an Aluno profile.
HasAluno(s) ==
    \E o \in s.pre.usuario :
        o.email = s.args.email /\ \E x \in s.pre.aluno : x.id_aluno = o.id_usuario

\* C16, as stated: get_or_create_usuario_aluno fails with the uniqueness
\* violation and leaves the tables unchanged whenever another Usuario's
\* Aluno profile holds the matricula, for a new email and for a stored one.
C16_MatriculaAlwaysRefused ==
    \A p \in Procs :
        LET s == ses[p]
        IN  (Done(s) /\ s.op = "aluno" /\ MatriculaTaken(s))
            => /\ s.err = "unique" /\ s.ret = {}
               /\ db = s.pre

\* C16, amended: the call fails so whenever it has to insert an Aluno
\* profile: the email is new, or its Usuario has no Aluno profile.  When the
\* Usuario already has one, the matricula is not used: the call returns the
\* Usuario with created = False and the aluno table is unchanged.
C16_MatriculaRefusedOnInsert ==
    \A p \in Procs :
        LET s == ses[p]
        IN  (Done(s) /\ s.op = "aluno" /\ MatriculaTaken(s))
            => IF ~HasAluno(s)
               THEN /\ s.err = "unique" /\ s.ret = {}
                    /\ db = s.pre
               ELSE /\ Succeeded(s) /\ ~The(s.ret).created
                    /\ The(s.ret).val.email = s.args.email
                    /\ db.aluno = s.pre.aluno
                    /\ {x.id_usuario : x \in db.usuario} = {x.id_usuario : x \in s.pre.usuario}

\* A new email with a matricula a stored student holds: the INSERT failed.
C16_Witness ==
    \E p \in Procs :
        LET s == ses[p]
        IN  /\ Done(s) /\ s.op = "aluno" /\ s.u = {}
            /\ \E x \in db.aluno : x.matricula = s.args.matricula
            /\ s.err = "unique"
            /\ s.trace = <<"open", "rollback", "close">>
            /\ \A x \in db.usuario : x.email # s.args.email

\* C17, as stated: get_or_create_sala with capacidade < 0 fails with the
\* constraint violation and leaves the tables unchanged, whether or not a
\* Sala with the name is stored.
C17_NegativeAlwaysRefused ==
    \A p \in Procs :
        LET s == ses[p]
        IN  (Done(s) /\ s.op = "sala" /\ s.args.capacidade < 0)
            => /\ s.err = "check" /\ s.ret = {}
               /\ db = s.pre

\* C17, amended: the call fails so when no Sala with the name is stored;
\* when one is, the capacity is not used: the call returns the stored Sala
\* with created = False and the tables are unchanged.
C17_NegativeRefusedOnInsert ==
    \A p \in Procs :
        LET s == ses[p]
            old == {x \in s.pre.sala : x.nome_sala = s.args.nome}
        IN  (Done(s) /\ s.op = "sala" /\ s.args.capacidade < 0)
            => /\ db = s.pre
               /\ IF old = {}
                  THEN s.err = "check" /\ s.ret = {}
                  ELSE s.err = "none" /\ s.ret = {[val |-> The(old), created |-> FALSE]}

\* A negative capacity for a name that is not stored, next to a stored Sala.
C17_Witness ==
    \E p \in Procs :
        LET s == ses[p]
        IN  /\ Done(s) /\ s.op = "sala" /\ s.args.capacidade < 0
            /\ s.err = "check"
            /\ s.trace = <<"open", "rollback", "close">>
            /\ db.sala # {}
            /\ \A x \in db.sala : x.nome_sala # s.args.nome

\* The table a get-or-create service returns a row of, and the row's key.
TableOf(op) ==
    CASE op \in {"aluno", "professor", "admin"} -> "usuario"
      [] op = "sala" -> "sala"
      [] op = "registrar" -> "registro"

PkOf(tab, r) ==
    CASE tab = "usuario" -> r.id_usuario
      [] tab = "sala" -> r.id_sala
      [] tab = "registro" -> r.id_registro

PksOf(d, tab) == {PkOf(tab, r) : r \in d[tab]}

\* C18: for the five get-or-create services the flag of a call that returns
\* is True exactly when the call inserted a row of its table (usuario, sala
\* or registro grows by one, by the returned row), and False exactly when the
\* table has as many rows as before and the returned row was stored before
\* the call.
C18_CreatedFlag ==
    \A p \in Procs :
        LET s == ses[p]
            tab == TableOf(s.op)
            r == The(s.ret)
        IN  (/\ Done(s) /\ s.op \in {"aluno", "professor", "admin", "sala", "registrar"}
             /\ Succeeded(s))
            => IF r.created
               THEN /\ Cardinality(db[tab]) = Cardinality(s.pre[tab]) + 1
                    /\ PkOf(tab, r.val) \notin PksOf(s.pre, tab)
                    /\ r.val \in db[tab]
               ELSE /\ Cardinality(db[tab]) = Cardinality(s.pre[tab])
                    /\ PkOf(tab, r.val) \in PksOf(s.pre, tab)
                    /\ PksOf(db, tab) = PksOf(s.pre, tab)

\* get_or_create_usuario_aluno on a stored Usuario inserted an Aluno profile
\* and no Usuario: the flag is False.
C18_Witness ==
    \E p \in Procs :
        LET s == ses[p]
        IN  /\ Done(s) /\ s.op = "aluno" /\ s.u # {} /\ Succeeded(s)
            /\ ~The(s.ret).created
            /\ db.aluno # s.pre.aluno
            /\ Cardinality(db.usuario) = Cardinality(s.pre.usuario)
            /\ Cardinality(db.usuario) = 2

\* C19: get_or_create_usuario_aluno, get_or_create_usuario_professor and
\* criar_usuario_admin called twice in a row with the same arguments, from
\* any reachable state: when the first call returns, the second returns the
\* same id_usuario with created = False and leaves every table as the first
\* call left it.
C19_SecondCallNoChange ==
    \A p \in Procs :
        LET s == ses[p]
            f == The(s.prev)
        IN  (/\ Done(s) /\ s.op \in {"aluno", "professor", "admin"}
             /\ s.prev # {} /\ f.op = s.op /\ f.args = s.args
             /\ f.err = "none" /\ f.ret # {})
            => /\ Succeeded(s)
               /\ ~The(s.ret).created
               /\ The(s.ret).val.id_usuario = The(f.ret).val.id_usuario
               /\ db = s.pre

\* get_or_create_usuario_aluno twice on a stored professor: the first call
\* changed its tipo and attached the profile, the second changed nothing.
C19_Witness ==
    \E p \in Procs :
        LET s == ses[p]
            f == The(s.prev)
        IN  /\ Done(s) /\ s.op = "aluno" /\ s.prev # {} /\ Succeeded(s)
            /\ f.err = "none" /\ f.ret # {} /\ ~The(f.ret).created
            /\ f.pre.usuario # s.pre.usuario
            /\ f.pre.aluno # s.pre.aluno
            /\ \E x \in f.pre.professor : x.id_professor = The(s.ret).val.id_usuario
            /\ db = s.pre

\* C20: in every reachable state each Aluno and each Professor row belongs to
\* one stored Usuario, a Usuario has at most one row of each kind, and once
\* deletar_usuario has removed a Usuario no profile row has its id.
C20_ProfilesOwned ==
    /\ \A x \in db.aluno : Cardinality({u \in db.usuario : u.id_usuario = x.id_aluno}) = 1
    /\ \A x \in db.professor :
          Cardinality({u \in db.usuario : u.id_usuario = x.id_professor}) = 1
    /\ \A x, y \in db.aluno : x.id_aluno = y.id_aluno => x = y
    /\ \A x, y \in db.professor : x.id_professor = y.id_professor => x = y
    /\ \A p \in Procs :
          LET s == ses[p]
          IN  (Done(s) /\ s.op = "deletar" /\ s.u # {} /\ s.err = "none")
              => /\ \A u \in db.usuario : u.id_usuario # s.args.id_usuario
                 /\ \A x \in db.aluno : x.id_aluno # s.args.id_usuario
                 /\ \A x \in db.professor : x.id_professor # s.args.id_usuario

\* deletar_usuario removed a Usuario that had an Aluno profile, while
\* another Usuario keeps its own.
C20_Witness ==
    \E p \in Procs :
        LET s == ses[p]
        IN  /\ Done(s) /\ s.op = "deletar" /\ s.u # {} /\ s.err = "none"
            /\ \E x \in s.pre.aluno : x.id_aluno = s.args.id_usuario
            /\ \A x \in db.aluno : x.id_aluno # s.args.id_usuario
            /\ db.aluno # {}

\* C21: listar_usuarios(tipo) returns exactly the Usuario rows whose tipo is
\* the given one (all rows when none is given), each once, in ascending
\* order of nome, and two rows with equal nome in ascending order of
\* id_usuario.
C21_ListedByNomeThenId ==
    \A p \in Procs :
        LET s == ses[p]
            rows == The(s.ret).val
            n == Len(rows)
        IN  (Done(s) /\ s.op = "listar_usuarios" /\ Succeeded(s))
            => /\ {rows[i] : i \in 1..n} =
                    {r \in s.pre.usuario : s.args.tipo = {} \/ r.tipo \in s.args.tipo}
               /\ n = Cardinality({rows[i] : i \in 1..n})
               /\ \A i, j \in 1..n :
                     i < j => \/ Collate(rows[i].nome) < Collate(rows[j].nome)
                              \/ /\ rows[i].nome = rows[j].nome
                                 /\ rows[i].id_usuario < rows[j].id_usuario

\* The rows a Registro listing has for the committed Registro r.
RowsOf(rows, r) == {i \in 1..Len(rows) : rows[i].id_registro = r.id_registro}

\* C22: listar_registros(dia) returns one row for each committed Registro of
\* the given day (for every Registro when no day is given) and no other row;
\* the row has the id of the Registro and the id and nome of its Usuario and
\* its Sala; the call changes no table.  After a triple was registered twice
\* the listing of its day has exactly one row for it.
C22_ListarRegistros ==
    \A p \in Procs :
        LET s == ses[p]
            rows == The(s.ret).val
            wanted == {r \in s.pre.registro : s.args.dia = {} \/ r.data_registro \in s.args.dia}
        IN  (Done(s) /\ s.op = "listar_registros")
            => /\ Succeeded(s)
               /\ db = s.pre
               /\ Len(rows) = Cardinality(wanted)
               /\ \A r \in wanted :
                     /\ Cardinality(RowsOf(rows, r)) = 1
                     /\ \A i \in RowsOf(rows, r) :
                           /\ rows[i].data = r.data_registro
                           /\ rows[i].usuario[1] = r.id_usuario
                           /\ \E u \in s.pre.usuario :
                                 u.id_usuario = r.id_usuario /\ rows[i].usuario[2] = u.nome
                           /\ rows[i].sala[1] = r.id_sala
                           /\ \E x \in s.pre.sala :
                                 x.id_sala = r.id_sala /\ rows[i].sala[2] = x.nome_sala
               /\ \A i \in 1..Len(rows) : \E r \in wanted : i \in RowsOf(rows, r)
               /\ (/\ s.prev # {} /\ The(s.prev).op = "registrar"
                   /\ The(s.prev).err = "none"
                   /\ s.args.dia = {The(s.prev).args.dia})
                  => Cardinality({i \in 1..Len(rows) :
                        /\ rows[i].usuario[1] = The(s.prev).args.id_usuario
                        /\ rows[i].sala[1] = The(s.prev).args.id_sala}) = 1

\* The listing of a day, right after the second registrar_idempotente of a
\* triple of that day returned the stored Registro: one row, of Ana in A101.
C22_Witness ==
    \E p \in Procs :
        LET s == ses[p]
        IN  /\ Done(s) /\ s.op = "listar_registros" /\ Succeeded(s)
            /\ s.prev # {} /\ The(s.prev).op = "registrar"
            /\ The(s.prev).ret # {} /\ ~The(The(s.prev).ret).created
            /\ s.args.dia = {The(s.prev).args.dia}
            /\ Len(The(s.ret).val) = 1
            /\ The(s.ret).val[1].usuario = <<1, "Ana", "aluno">>
            /\ The(s.ret).val[1].sala = <<1, "A101">>

\* The string is an output of hash_senha_bcrypt.
WellFormed(h) == \E x \in Plaintexts, salt \in Salts : h = hash_senha_bcrypt(x, salt)

\* C23: verificar_senha(senha_plana, senha_hash) returns False, and raises
\* nothing, for every senha_hash that is no well-formed output of
\* hash_senha_bcrypt.
C23_MalformedIsFalse ==
    \A p \in Procs :
        LET s == ses[p]
        IN  (Done(s) /\ s.op = "verificar" /\ ~WellFormed(s.args.senha_hash))
            => /\ s.err = "none"
               /\ s.ret = {[val |-> FALSE, created |-> FALSE]}

\* The Usuario the call found has a profile of the kind the call is for.
HadProfile(s) ==
    IF s.op = "aluno" THEN \E x \in s.pre.aluno : x.id_aluno = The(s.u).id_usuario
    ELSE \E x \in s.pre.professor : x.id_professor = The(s.u).id_usuario

\* C24: get_or_create_usuario_aluno and get_or_create_usuario_professor with
\* the email of a stored Usuario never change its id_usuario, nome or senha,
\* nor the matricula of an Aluno profile it has, whatever nome, senha_plana
\* and matricula are passed: the call sets the tipo and attaches the profile
\* of its kind if that is missing, and nothing else; it can only fail when
\* it attaches an Aluno profile, and then changes nothing.
C24_ExistingOnlyCoerced ==
    \A p \in Procs :
        LET s == ses[p]
            u == The(s.u)
        IN  (Done(s) /\ s.op \in {"aluno", "professor"} /\ s.u # {})
            => IF s.err = "none"
               THEN db = [s.pre EXCEPT
                            !.usuario = (@ \ {u}) \cup {[u EXCEPT !.tipo = s.op]},
                            !.aluno = @ \cup IF s.op = "aluno" /\ ~HadProfile(s)
                                             THEN {Aluno(u.id_usuario, s.args.matricula)}
                                             ELSE {},
                            !.professor = @ \cup IF s.op = "professor" /\ ~HadProfile(s)
                                                 THEN {Professor(u.id_usuario)}
                                                 ELSE {}]
               ELSE s.op = "aluno" /\ ~HadProfile(s) /\ db = s.pre

\* get_or_create_usuario_aluno with another nome and another matricula on a
\* stored professor that has an Aluno profile: only the tipo changed.
C24_Witness ==
    \E p \in Procs :
        LET s == ses[p]
            u == The(s.u)
        IN  /\ Done(s) /\ s.op = "aluno" /\ s.u # {} /\ s.err = "none"
            /\ u.tipo = "professor"
            /\ s.args.nome # u.nome
            /\ \E x \in db.aluno : x.id_aluno = u.id_usuario /\ x.matricula # s.args.matricula
            /\ db.aluno = s.pre.aluno
            /\ [u EXCEPT !.tipo = "aluno"] \in db.usuario

\* Every Usuario of tipo 'aluno' has an Aluno row and every Usuario of tipo
\* 'professor' a Professor row.
TipoHasProfile ==
    \A u \in db.usuario :
        /\ u.tipo = "aluno" => \E x \in db.aluno : x.id_aluno = u.id_usuario
        /\ u.tipo = "professor" => \E x \in db.professor : x.id_professor = u.id_usuario

\* atualizar_usuario_basico has committed.
UpdateDone(s) == s.op = "atualizar" /\ s.pc \in {"close", "done"} /\ s.err = "none"

\* C25: in every state reached with get_or_create_usuario_aluno,
\* get_or_create_usuario_professor, criar_usuario_admin, deletar_usuario,
\* get_or_create_sala and registrar_idempotente only, every Usuario of tipo
\* 'aluno' has an Aluno profile and every Usuario of tipo 'professor' a
\* Professor profile; one atualizar_usuario_basico that changes the tipo
\* reaches a state where that is false (C25_Witness).
C25_TipoHasProfile ==
    (\A p \in Procs : ~UpdateDone(ses[p])) => TipoHasProfile

\* One atualizar_usuario_basico made a student a professor: the Usuario has
\* no Professor profile.
C25_Witness ==
    \E p \in Procs :
        LET s == ses[p]
        IN  /\ Done(s) /\ UpdateDone(s) /\ s.u # {}
            /\ The(s.u).tipo = "aluno" /\ s.args.tipo = "professor"
            /\ \A x \in db.professor : x.id_professor # s.args.id_usuario
            /\ \E x \in db.usuario : x.id_usuario = s.args.id_usuario /\ x.tipo = "professor"
            /\ ~TipoHasProfile

====
